---- MODULE Spec2Model ----
(***************************************************************************)
(* Model of services/image-sanitiser/handler.py: the Lambda entry point    *)
(* lambda_handler (one invocation over a batch of S3 notifications) and    *)
(* the transform strip_exif_metadata.                                      *)
(*                                                                         *)
(* The S3 client and Pillow are collaborators of the handler.  S3 is the   *)
(* environment: every get_object / put_object call picks its outcome       *)
(* nondeterministically.  Pillow is modelled by the documented behaviour   *)
(* of the three calls the handler makes (Image.open, Image.convert,        *)
(* Image.save), on image files described by format, mode, size and         *)
(* presence of an EXIF block.                                              *)
(***************************************************************************)
EXTENDS Integers, Sequences, FiniteSets, TLC

VARIABLES
    event,            \* the invocation's input
    pillow,           \* TRUE iff "from PIL import Image" succeeds in this runtime
    pc,               \* position of the handler
    records,          \* the list being iterated (event.get("Records", []))
    idx,              \* number of records the for-loop has taken so far
    bucket_name,      \* locals of lambda_handler; they live across iterations
    object_key,
    response,
    image_data,
    sanitized_image,
    output_key,
    exc,              \* the exception in flight, NoExc when none
    results,          \* the results list
    calls,            \* history: every get_object / strip / put_object call made
    ret               \* what the invocation returned or raised

vars == <<event, pillow, pc, records, idx, bucket_name, object_key, response,
          image_data, sanitized_image, output_key, exc, results, calls, ret>>

----------------------------------------------------------------------------
(* Bounds *)

MaxRecords == 2
MaxDim == 2

----------------------------------------------------------------------------
(* Values *)

OUTPUT_BUCKET == "bucket-out"

NoExc == [type |-> "none", msg |-> ""]
Exc(t, m) == [type |-> t, msg |-> m]

UnboundStr == "<unbound>"
Unbound == [unbound |-> TRUE]

\* str(e)
str(e) == e.msg

----------------------------------------------------------------------------
(* Image files.  A byte string is described by what a decoder sees in it.  *)

FormatModes ==
    {<<"JPEG", "L">>, <<"JPEG", "RGB">>, <<"JPEG", "CMYK">>,
     <<"PNG", "L">>, <<"PNG", "LA">>, <<"PNG", "P">>, <<"PNG", "RGB">>,
     <<"PNG", "RGBA">>, <<"GIF", "P">>}

Channels(mode) ==
    CASE mode = "L" -> 1
      [] mode = "P" -> 1
      [] mode = "LA" -> 2
      [] mode = "RGB" -> 3
      [] mode = "RGBA" -> 4
      [] mode = "CMYK" -> 4

AlphaModes == {"LA", "RGBA"}

\* len() of the encoded file
EncodedSize(mode, w, h, exif) == 4 + w * h * Channels(mode) + (IF exif THEN 2 ELSE 0)

ImageFile(fmt, mode, w, h, exif) ==
    [kind |-> "image", format |-> fmt, mode |-> mode, width |-> w, height |-> h,
     exif |-> exif, size |-> EncodedSize(mode, w, h, exif)]

\* a file whose header parses but whose pixel data is cut short
Truncated(f) == [f EXCEPT !.kind = "truncated", !.size = 4]

\* b"not an image" and b""
Garbage == {[kind |-> "garbage", size |-> 12], [kind |-> "garbage", size |-> 0]}

Dims == 1..MaxDim

ImageFiles ==
    {ImageFile(fm[1], fm[2], w, h, x) : fm \in FormatModes, w \in Dims, h \in Dims,
                                         x \in BOOLEAN}

TruncatedFiles == {Truncated(ImageFile(fm[1], fm[2], 1, 1, FALSE)) : fm \in FormatModes}

AllBytes == ImageFiles \cup TruncatedFiles \cup Garbage

\* the bytes are a complete image file
Decodable(b) == b.kind = "image"

len(b) == b.size

----------------------------------------------------------------------------
(* Pillow, as called by strip_exif_metadata.  Each call returns            *)
(* [ok |-> TRUE, v |-> value] or [ok |-> FALSE, e |-> exception].          *)

Ok(v) == [ok |-> TRUE, v |-> v]
Raise(e) == [ok |-> FALSE, e |-> e]

\* Image.open(BytesIO(image_data)): reads the header only
Image_open(b) ==
    IF b.kind = "garbage"
    THEN Raise(Exc("UnidentifiedImageError", "cannot identify image file"))
    ELSE Ok([mode |-> b.mode, width |-> b.width, height |-> b.height,
             exif |-> b.exif, complete |-> b.kind = "image"])

\* image.convert("RGB"): loads the pixel data, keeps the size
Image_convert(im, mode) ==
    IF ~im.complete
    THEN Raise(Exc("OSError", "image file is truncated"))
    ELSE Ok([im EXCEPT !.mode = mode])

JpegModes == {"L", "RGB", "CMYK"}

\* image.save(buf, format="JPEG", quality=95, exif=exif); buf.getvalue()
Image_save(im, exifArg) ==
    IF ~im.complete
    THEN Raise(Exc("OSError", "image file is truncated"))
    ELSE IF im.mode \notin JpegModes
    THEN Raise(Exc("OSError", "cannot write mode as JPEG"))
    ELSE Ok(ImageFile("JPEG", im.mode, im.width, im.height, exifArg # ""))

----------------------------------------------------------------------------
(* strip_exif_metadata *)

NeedsConvertOnlyAlpha(mode) == mode \in AlphaModes

\* if image.mode != "RGB"
NeedsConvert(mode) == mode # "RGB"

\* exif=b""
ExifArg == ""

ReraiseWrapped(e) == Exc("RuntimeError", "Image processing failed")

\* except Exception as e: ...; raise
Reraise(e) == e

\* except ImportError: raise RuntimeError(...)
ImportFailure == Exc("RuntimeError", "Image processing library not available")

\* The result carries, beside the bytes, whether the conversion ran.
strip_exif_metadata(b, havePillow) ==
    IF ~havePillow THEN Raise(ImportFailure)
    ELSE LET o == Image_open(b) IN
      IF ~o.ok THEN Raise(Reraise(o.e))
      ELSE LET conv == NeedsConvert(o.v.mode)
               c == IF conv THEN Image_convert(o.v, "RGB") ELSE Ok(o.v) IN
        IF ~c.ok THEN Raise(Reraise(c.e))
        ELSE LET s == Image_save(c.v, ExifArg) IN
          IF ~s.ok THEN Raise(Reraise(s.e))
          ELSE [ok |-> TRUE, v |-> s.v, converted |-> conv]

----------------------------------------------------------------------------
(* Events.  A dict is a record; a missing key is a missing field.          *)

PyList(s) == [t |-> "list", v |-> s]
PyNone == [t |-> "none"]
PyInt == [t |-> "int"]

\* the notification for s3://b/k
Notification(b, k) == [s3 |-> [bucket |-> [name |-> b], object |-> [key |-> k]]]

MalformedRecords ==
    {[eventSource |-> "aws:s3"],
     [s3 |-> [bucket |-> [arn |-> "arn:aws:s3:::bucket-in"],
              object |-> [key |-> "photo.jpg"]]],
     [s3 |-> [bucket |-> [name |-> "bucket-in"], object |-> [eTag |-> "0a1b"]]]}

WellFormedRecords ==
    {Notification("bucket-in", "photo.jpg"), Notification("bucket-in", "missing.jpg"),
     Notification("bucket-alt", "photo.jpg")}

RecordUniverse == WellFormedRecords \cup MalformedRecords

RecordLists == UNION {[1..n -> RecordUniverse] : n \in 0..MaxRecords}

Events ==
    {[Records |-> PyList(l)] : l \in RecordLists}
      \cup {[Records |-> PyNone], [Records |-> PyInt], [source |-> "test"]}

\* repr of the missing key, which is str(KeyError(k))
KeyRepr(k) ==
    CASE k = "s3" -> "'s3'"
      [] k = "bucket" -> "'bucket'"
      [] k = "name" -> "'name'"
      [] k = "object" -> "'object'"
      [] k = "key" -> "'key'"

\* d[k]
GetItem(d, k) == IF k \in DOMAIN d THEN Ok(d[k]) ELSE Raise(Exc("KeyError", KeyRepr(k)))

\* d[k1][k2][k3]
GetPath(d, k1, k2, k3) ==
    LET a == GetItem(d, k1) IN
    IF ~a.ok THEN a
    ELSE LET b == GetItem(a.v, k2) IN
      IF ~b.ok THEN b ELSE GetItem(b.v, k3)

\* d.get(k, default)
DictGet(d, k, default) == IF k \in DOMAIN d THEN d[k] ELSE default

\* iter(x), as the for statement calls it
Iter(x) ==
    IF x.t = "list" THEN Ok(x.v)
    ELSE Raise(Exc("TypeError", "object is not iterable"))

----------------------------------------------------------------------------
(* The S3 environment *)

GetErrors == {"NoSuchKey", "AccessDenied"}
PutErrors == {"SlowDown"}

\* the objects the source store may hold in a handler run
StoredBytes ==
    {ImageFile("JPEG", "RGB", 1, 1, TRUE), ImageFile("PNG", "RGBA", 1, 2, FALSE),
     Truncated(ImageFile("JPEG", "RGB", 1, 1, FALSE)), [kind |-> "garbage", size |-> 12]}

GetResponses ==
    {[Body |-> b] : b \in StoredBytes}
      \cup {[Body |-> b, ContentType |-> "image/png"] : b \in StoredBytes}

----------------------------------------------------------------------------
(* lambda_handler *)

Init ==
    /\ event \in Events
    /\ pillow \in BOOLEAN
    /\ pc = "start"
    /\ records = <<>>
    /\ idx = 0
    /\ bucket_name = UnboundStr
    /\ object_key = UnboundStr
    /\ response = Unbound
    /\ image_data = Unbound
    /\ sanitized_image = Unbound
    /\ output_key = UnboundStr
    /\ exc = NoExc
    /\ results = <<>>
    /\ calls = <<>>
    /\ ret = [kind |-> "running"]

Locals == <<bucket_name, object_key, response, image_data, sanitized_image, output_key>>

\* for record in event.get("Records", []): the iterator is taken once
Start ==
    /\ pc = "start"
    /\ LET it == Iter(DictGet(event, "Records", PyList(<<>>))) IN
         IF it.ok
         THEN /\ records' = it.v
              /\ pc' = "loop"
              /\ ret' = ret
         ELSE /\ records' = records
              /\ pc' = "raised"
              /\ ret' = [kind |-> "raise", e |-> it.e]
    /\ UNCHANGED <<event, pillow, idx, Locals, exc, results, calls>>

ResetObjectKeyStale(prev) == prev

\* object_key: str = ""
ResetObjectKey(prev) == ""

\* the for statement takes the next record; object_key = ""
NextRecord ==
    /\ pc = "loop"
    /\ idx < Len(records)
    /\ idx' = idx + 1
    /\ object_key' = ResetObjectKey(object_key)
    /\ pc' = "extract"
    /\ UNCHANGED <<event, pillow, records, bucket_name, response, image_data,
                   sanitized_image, output_key, exc, results, calls, ret>>

\* bucket_name = record["s3"]["bucket"]["name"]; object_key = record["s3"]["object"]["key"]
Extract ==
    /\ pc = "extract"
    /\ LET record == records[idx]
           b == GetPath(record, "s3", "bucket", "name")
           k == GetPath(record, "s3", "object", "key") IN
         IF ~b.ok
         THEN /\ exc' = b.e
              /\ pc' = "except"
              /\ UNCHANGED <<bucket_name, object_key>>
         ELSE /\ bucket_name' = b.v
              /\ IF ~k.ok
                 THEN /\ exc' = k.e
                      /\ pc' = "except"
                      /\ object_key' = object_key
                 ELSE /\ object_key' = k.v
                      /\ pc' = "get"
                      /\ exc' = exc
    /\ UNCHANGED <<event, pillow, records, idx, response, image_data, sanitized_image,
                   output_key, results, calls, ret>>

\* response = s3_client.get_object(Bucket=bucket_name, Key=object_key), which raises
GetObjectFails ==
    /\ pc = "get"
    /\ \E m \in GetErrors :
         /\ calls' = Append(calls, [op |-> "get_object", i |-> idx, Bucket |-> bucket_name,
                                    Key |-> object_key, ok |-> FALSE, msg |-> m])
         /\ exc' = Exc("ClientError", m)
    /\ pc' = "except"
    /\ UNCHANGED <<event, pillow, records, idx, Locals, results, ret>>

\* response = s3_client.get_object(...); image_data = response["Body"].read()
GetObject ==
    /\ pc = "get"
    /\ \E r \in GetResponses :
         /\ calls' = Append(calls, [op |-> "get_object", i |-> idx, Bucket |-> bucket_name,
                                    Key |-> object_key, ok |-> TRUE, response |-> r])
         /\ response' = r
         /\ image_data' = r.Body
    /\ pc' = "strip"
    /\ UNCHANGED <<event, pillow, records, idx, bucket_name, object_key, sanitized_image,
                   output_key, exc, results, ret>>

\* sanitized_image = strip_exif_metadata(image_data)
Strip ==
    /\ pc = "strip"
    /\ LET r == strip_exif_metadata(image_data, pillow) IN
         /\ calls' = Append(calls, [op |-> "strip", i |-> idx, data |-> image_data,
                                    result |-> r])
         /\ IF r.ok
            THEN /\ sanitized_image' = r.v
                 /\ pc' = "put"
                 /\ exc' = exc
            ELSE /\ sanitized_image' = sanitized_image
                 /\ pc' = "except"
                 /\ exc' = r.e
    /\ UNCHANGED <<event, pillow, records, idx, bucket_name, object_key, response,
                   image_data, output_key, results, ret>>

PutBucketSource(source) == source

\* Bucket=OUTPUT_BUCKET
PutBucket(source) == OUTPUT_BUCKET

PutBodyRaw(raw, sanitized) == raw

\* Body=sanitized_image
PutBody(raw, sanitized) == sanitized

PutContentTypeFixed(resp) == "image/jpeg"

\* ContentType=response.get("ContentType", "image/jpeg")
PutContentType(resp) == DictGet(resp, "ContentType", "image/jpeg")

\* the call as the store sees it; msg is the message of the error it answers with
PutCall(ok, msg) ==
    [op |-> "put_object", i |-> idx, Bucket |-> PutBucket(bucket_name),
     Key |-> object_key, Body |-> PutBody(image_data, sanitized_image),
     ContentType |-> PutContentType(response), ok |-> ok, msg |-> msg]

\* output_key = object_key; s3_client.put_object(...), which raises
PutObjectFails ==
    /\ pc = "put"
    /\ output_key' = object_key
    /\ \E m \in PutErrors :
         /\ calls' = Append(calls, PutCall(FALSE, m))
         /\ exc' = Exc("ClientError", m)
    /\ pc' = "except"
    /\ UNCHANGED <<event, pillow, records, idx, bucket_name, object_key, response,
                   image_data, sanitized_image, results, ret>>

\* output_key = object_key; s3_client.put_object(...)
PutObject ==
    /\ pc = "put"
    /\ output_key' = object_key
    /\ calls' = Append(calls, PutCall(TRUE, ""))
    /\ pc' = "append"
    /\ UNCHANGED <<event, pillow, records, idx, bucket_name, object_key, response,
                   image_data, sanitized_image, exc, results, ret>>

SuccessEntry ==
    [status |-> "success", input_key |-> object_key, output_key |-> output_key,
     input_size |-> len(image_data), output_size |-> len(sanitized_image)]

\* results.append({"status": "success", ...})
AppendSuccess ==
    /\ pc = "append"
    /\ results' = Append(results, SuccessEntry)
    /\ pc' = "loop"
    /\ UNCHANGED <<event, pillow, records, idx, Locals, exc, calls, ret>>

ErrorEntryNoKey(key, e) == [status |-> "error", input_key |-> "", error |-> str(e)]

\* {"status": "error", "input_key": object_key, "error": str(e)}
ErrorEntry(key, e) == [status |-> "error", input_key |-> key, error |-> str(e)]

RecordErrorDropped(rs, entry) == rs

\* results.append(<the error entry>)
RecordError(rs, entry) == Append(rs, entry)

AfterErrorAbort(taken, total) == total

\* the except clause sits inside the for body: the records not yet taken stay
\* to be taken (the number taken so far is unchanged)
AfterError(taken, total) == taken

\* except Exception as e: results.append({...})
HandleError ==
    /\ pc = "except"
    /\ results' = RecordError(results, ErrorEntry(object_key, exc))
    /\ exc' = NoExc
    /\ idx' = AfterError(idx, Len(records))
    /\ pc' = "loop"
    /\ UNCHANGED <<event, pillow, records, Locals, calls, ret>>

\* return {"statusCode": 200, "body": json.dumps({"processed": len(results), "results": results})}
\* body is kept as the document json.dumps serialises
Return ==
    /\ pc = "loop"
    /\ idx >= Len(records)
    /\ ret' = [kind |-> "return", statusCode |-> 200,
               body |-> [processed |-> Len(results), results |-> results]]
    /\ pc' = "done"
    /\ UNCHANGED <<event, pillow, records, idx, Locals, exc, results, calls>>

Next ==
    \/ Start
    \/ NextRecord
    \/ Extract
    \/ GetObjectFails
    \/ GetObject
    \/ Strip
    \/ PutObjectFails
    \/ PutObject
    \/ AppendSuccess
    \/ HandleError
    \/ Return

Spec == Init /\ [][Next]_vars

----------------------------------------------------------------------------
(* strip_exif_metadata called on its own, over every file of AllBytes; the *)
(* output of a successful call is fed back once.                           *)

InitSanitize ==
    /\ event = [source |-> "sanitize"]
    /\ pillow \in BOOLEAN
    /\ pc = "call"
    /\ records = <<>>
    /\ idx = 0
    /\ bucket_name = UnboundStr
    /\ object_key = UnboundStr
    /\ response = Unbound
    /\ image_data \in AllBytes
    /\ sanitized_image = Unbound
    /\ output_key = UnboundStr
    /\ exc = NoExc
    /\ results = <<>>
    /\ calls = <<>>
    /\ ret = [kind |-> "running"]

\* sanitized = strip_exif_metadata(image_data)
SanitizeCall ==
    /\ pc = "call"
    /\ LET r == strip_exif_metadata(image_data, pillow) IN
         /\ calls' = Append(calls, [op |-> "strip", i |-> Len(calls) + 1,
                                    data |-> image_data, result |-> r])
         /\ IF r.ok
            THEN /\ sanitized_image' = r.v
                 /\ pc' = "returned"
                 /\ exc' = exc
            ELSE /\ sanitized_image' = sanitized_image
                 /\ pc' = "failed"
                 /\ exc' = r.e
    /\ UNCHANGED <<event, pillow, records, idx, bucket_name, object_key, response,
                   image_data, output_key, results, ret>>

\* strip_exif_metadata(strip_exif_metadata(image_data))
Resanitize ==
    /\ pc = "returned"
    /\ Len(calls) = 1
    /\ image_data' = sanitized_image
    /\ pc' = "call"
    /\ UNCHANGED <<event, pillow, records, idx, bucket_name, object_key, response,
                   sanitized_image, output_key, exc, results, calls, ret>>

NextSanitize ==
    \/ SanitizeCall
    \/ Resanitize

SpecSanitize == InitSanitize /\ [][NextSanitize]_vars

----------------------------------------------------------------------------
(* Vocabulary of the properties *)

N == Len(records)
Finished == pc = "done"

\* the positions in calls of record i's calls to op
CallsOf(op, i) == {n \in DOMAIN calls : calls[n].op = op /\ calls[n].i = i}
AllCalls(op) == {n \in DOMAIN calls : calls[n].op = op}

HasAll(r) ==
    /\ "s3" \in DOMAIN r
    /\ "bucket" \in DOMAIN r.s3 /\ "name" \in DOMAIN r.s3.bucket
    /\ "object" \in DOMAIN r.s3 /\ "key" \in DOMAIN r.s3.object

\* record i has been dealt with: its entry of results exists
Settled(i) == i \in 1..Len(results)

DecodeErrorKinds == {"UnidentifiedImageError", "OSError"}

----------------------------------------------------------------------------
\* C1: the body has processed = len(results) = N, results[i] is the outcome of
\* the i-th input record in input order (its key, and success exactly when that
\* record's own write completed), nothing is dropped or duplicated on the way,
\* and an empty batch gives processed = 0, results = [].
OneOutcomePerRecordInOrder ==
    /\ pc \in {"loop", "done"} => Len(results) = idx
    /\ pc \in {"extract", "get", "strip", "put", "append", "except"} =>
         Len(results) = idx - 1
    /\ Finished =>
         /\ ret.kind = "return"
         /\ ret.body.processed = Len(ret.body.results)
         /\ ret.body.processed = N
         /\ \A i \in 1..N :
              /\ ret.body.results[i].input_key =
                   (IF HasAll(records[i]) THEN records[i].s3.object.key ELSE "")
              /\ ret.body.results[i].status = "success" <=>
                   \E n \in CallsOf("put_object", i) : calls[n].ok
         /\ N = 0 => ret.body = [processed |-> 0, results |-> <<>>]

WitnessMixedBatchInOrder ==
    /\ Finished
    /\ N = 2
    /\ ret.body.results[1].status = "error"
    /\ ret.body.results[1].input_key = "missing.jpg"
    /\ ret.body.results[2].status = "success"
    /\ ret.body.results[2].input_key = "photo.jpg"

----------------------------------------------------------------------------
\* The outcome of record i told from record i alone: its content and what its own
\* get_object, strip_exif_metadata and put_object calls answered.
OwnOutcome(i) ==
    LET r == records[i]
        b == GetPath(r, "s3", "bucket", "name")
        k == GetPath(r, "s3", "object", "key")
        gs == CallsOf("get_object", i)
        ss == CallsOf("strip", i)
        ps == CallsOf("put_object", i)
    IN  IF ~b.ok THEN [status |-> "error", input_key |-> "", error |-> b.e.msg]
        ELSE IF ~k.ok THEN [status |-> "error", input_key |-> "", error |-> k.e.msg]
        ELSE IF gs = {} THEN [status |-> "none"]
        ELSE LET g == calls[CHOOSE n \in gs : TRUE] IN
          IF ~g.ok THEN [status |-> "error", input_key |-> k.v, error |-> g.msg]
          ELSE IF ss = {} THEN [status |-> "none"]
          ELSE LET s == calls[CHOOSE n \in ss : TRUE].result IN
            IF ~s.ok THEN [status |-> "error", input_key |-> k.v, error |-> s.e.msg]
            ELSE IF ps = {} THEN [status |-> "none"]
            ELSE LET p == calls[CHOOSE n \in ps : TRUE] IN
              IF ~p.ok THEN [status |-> "error", input_key |-> k.v, error |-> p.msg]
              ELSE [status |-> "success", input_key |-> k.v, output_key |-> k.v,
                    input_size |-> g.response.Body.size, output_size |-> s.v.size]

\* a put_object is due for record i: it is well formed, fetched and sanitised
OwnPutDue(i) ==
    /\ HasAll(records[i])
    /\ \E n \in CallsOf("get_object", i) : calls[n].ok
    /\ \E n \in CallsOf("strip", i) : calls[n].result.ok

\* record j succeeds as far as its own calls answered
SucceedsOnItsOwn(j) ==
    /\ HasAll(records[j])
    /\ \A n \in CallsOf("get_object", j) : calls[n].ok
    /\ \A n \in CallsOf("strip", j) : calls[n].result.ok
    /\ \A n \in CallsOf("put_object", j) : calls[n].ok

GetRaised(k) == \E n \in CallsOf("get_object", k) : ~calls[n].ok

\* C2: the outcome of record i, and whether a put_object is issued for it, depend
\* only on record i and its own calls; when only record k fails and every other
\* record succeeds on its own, processed = N with the single error at position k.
BatchIsolation ==
    Finished =>
      /\ Len(results) = N
      /\ ret.body.processed = N
      /\ \A i \in 1..N :
           /\ results[i] = OwnOutcome(i)
           /\ CallsOf("put_object", i) # {} <=> OwnPutDue(i)
      /\ \A k \in 1..N :
           (GetRaised(k) /\ \A j \in 1..N \ {k} : SucceedsOnItsOwn(j)) =>
             \A i \in 1..N : results[i].status = (IF i = k THEN "error" ELSE "success")

WitnessOnlyFirstFails ==
    /\ Finished
    /\ N = 2
    /\ GetRaised(1)
    /\ SucceedsOnItsOwn(2)
    /\ results[2].status = "success"

----------------------------------------------------------------------------
IterationBegins == "Records" \in DOMAIN event => event.Records.t = "list"

\* C3: lambda_handler never raises and always returns statusCode 200; when the
\* record list is absent, null or not iterable the body is processed = 0,
\* results = [].
NeverFailsAsAWhole ==
    pc \in {"done", "raised"} =>
      /\ ret.kind = "return"
      /\ ret.statusCode = 200
      /\ ("Records" \notin DOMAIN event \/ ~IterationBegins) =>
           ret.body = [processed |-> 0, results |-> <<>>]

----------------------------------------------------------------------------
\* C4: every put_object targets OUTPUT_BUCKET, never the source bucket; a success
\* entry has output_key = input_key = the record's object key, and its put_object
\* went to OUTPUT_BUCKET at that key.
FixedDestinationSameKey ==
    /\ \A n \in AllCalls("put_object") :
         /\ calls[n].Bucket = OUTPUT_BUCKET
         /\ calls[n].Bucket # records[calls[n].i].s3.bucket.name
    /\ \A i \in 1..Len(results) :
         results[i].status = "success" =>
           /\ results[i].input_key = records[i].s3.object.key
           /\ results[i].output_key = results[i].input_key
           /\ \E n \in CallsOf("put_object", i) :
                calls[n].Bucket = OUTPUT_BUCKET /\ calls[n].Key = results[i].input_key

WitnessSuccessFromAltBucket ==
    /\ Len(results) = 1
    /\ results[1].status = "success"
    /\ records[1].s3.bucket.name = "bucket-alt"
    /\ results[1].output_key = "photo.jpg"

----------------------------------------------------------------------------
\* C5: when get_object raises for a well-formed record, the record's outcome is
\* the error entry with that record's key and the store's message, no
\* strip_exif_metadata and no put_object run for it, and the loop goes on to the
\* next record.
FetchFailureIsReportedAndSkipped ==
    \A n \in AllCalls("get_object") :
      ~calls[n].ok =>
        LET i == calls[n].i IN
        /\ CallsOf("strip", i) = {} /\ CallsOf("put_object", i) = {}
        /\ pc = "except" /\ idx = i => exc.msg = calls[n].msg
        /\ Settled(i) =>
             results[i] = [status |-> "error", input_key |-> records[i].s3.object.key,
                           error |-> calls[n].msg]
        /\ (Finished /\ i < N) => Settled(i + 1)

WitnessFetchFailureThenNext ==
    /\ Finished
    /\ N = 2
    /\ GetRaised(1)
    /\ results[1] = [status |-> "error", input_key |-> "missing.jpg", error |-> "NoSuchKey"]
    /\ CallsOf("get_object", 2) # {}

----------------------------------------------------------------------------
\* C6: a record whose bucket name or object key cannot be extracted gets an error
\* entry with input_key "", no get_object and no put_object, never the key of an
\* earlier record, and the remaining records are still processed.
MalformedRecordIsReported ==
    /\ \A i \in 1..idx :
         ~HasAll(records[i]) =>
           /\ CallsOf("get_object", i) = {} /\ CallsOf("put_object", i) = {}
           /\ (pc = "except" /\ idx = i) => object_key = ""
           /\ Settled(i) => /\ results[i].status = "error"
                            /\ results[i].input_key = ""
    /\ Finished => \A i \in 1..N : Settled(i)

WitnessMalformedAfterGood ==
    /\ Finished
    /\ N = 2
    /\ results[1].status = "success"
    /\ ~HasAll(records[2])
    /\ results[2].input_key = ""

----------------------------------------------------------------------------
\* C7: the put_object of a fetched and sanitised record carries the ContentType of
\* that record's get_object response when it declares one, and "image/jpeg" when
\* it declares none.
ContentTypeDeclaredOrDefault ==
    /\ \A n \in AllCalls("put_object") :
         \E g \in CallsOf("get_object", calls[n].i) :
           /\ calls[g].ok
           /\ calls[n].ContentType =
                (IF "ContentType" \in DOMAIN calls[g].response
                 THEN calls[g].response.ContentType ELSE "image/jpeg")
    /\ \A i \in 1..Len(results) : OwnPutDue(i) => CallsOf("put_object", i) # {}

WitnessDeclaredContentType ==
    \E n \in AllCalls("put_object") : calls[n].ContentType = "image/png"

----------------------------------------------------------------------------
----------------------------------------------------------------------------
\* C10: at most one put_object per record, issued only after that record's
\* get_object and strip_exif_metadata succeeded, with the sanitised bytes as Body;
\* a success entry exactly when the put_object returned, so successes and completed
\* puts are equally many; a failed put_object gives an error entry and no retry.
SingleWriteAfterSanitize ==
    /\ \A i \in 1..idx :
         /\ Cardinality(CallsOf("put_object", i)) <= 1
         /\ \A n \in CallsOf("put_object", i) :
              \E g \in CallsOf("get_object", i), s \in CallsOf("strip", i) :
                /\ g < s /\ s < n
                /\ calls[g].ok /\ calls[s].result.ok
                /\ calls[s].data = calls[g].response.Body
                /\ calls[n].Body = calls[s].result.v
                /\ calls[n].Body # calls[g].response.Body
         /\ Settled(i) =>
              /\ results[i].status = "success" <=>
                   \E n \in CallsOf("put_object", i) : calls[n].ok
              /\ (\E n \in CallsOf("put_object", i) : ~calls[n].ok) =>
                   results[i].status = "error"
    /\ Finished =>
         Cardinality({i \in 1..Len(results) : results[i].status = "success"}) =
           Cardinality({n \in AllCalls("put_object") : calls[n].ok})

WitnessPutFailsNoRetry ==
    /\ Finished
    /\ N = 1
    /\ \E n \in CallsOf("put_object", 1) : ~calls[n].ok
    /\ results[1].status = "error"

----------------------------------------------------------------------------
====
